---- MODULE Spec2Model ----
(***************************************************************************)
(* Model of azure/appconfiguration/provider/_replica_client.py:            *)
(*   ReplicaClient         - change detection, load and refresh            *)
(*   ReplicaClientManager  - active set, backoff, close                    *)
(***************************************************************************)
EXTENDS Integers, Sequences, FiniteSets, TLC

(***************************************************************************)
(* Bounds of the model                                                     *)
(***************************************************************************)
MaxEtag == 2
MaxWatched == 2
MaxSelects == 1
NumClients == 2
MaxBackoffCalls == 3
MaxTicks == 3
JitterSteps == 2
MaxBackoffSeconds == 2
MaxAttempts == 65

\* Python's None: as an etag (etags are 1..MaxEtag), and as an object
None == 0
Nothing == <<>>
Some(x) == <<x>>

(***************************************************************************)
(* Remote store content: keys, labels, (key, label) pairs, etags           *)
(***************************************************************************)
FEATURE_FLAG_PREFIX == <<".appconfig.featureflag/">>

Labels == {"prod"}

\* the (key, label) pairs the store can hold, in the order it lists them:
\* a plain setting and a feature flag
AllPairs ==
  << <<(<<"a">>), "prod">>, <<(FEATURE_FLAG_PREFIX \o <<"f">>), "prod">> >>

Range(s) == {s[i] : i \in DOMAIN s}

Pairs == Range(AllPairs)

Etags == 1..MaxEtag

KeyFilters == {<<"*">>, <<"a">>}
FlagKeyFilters == {<<"*">>, <<"f">>}

Selectors == [key_filter : KeyFilters, label_filter : Labels]
FlagSelectors == [key_filter : FlagKeyFilters, label_filter : Labels]

(***************************************************************************)
(* Python dict, insertion ordered: a sequence of <<key, value>> items      *)
(***************************************************************************)
DictKeys(d) == {d[i][1] : i \in DOMAIN d}

DictHas(d, k) == k \in DictKeys(d)

DictGet(d, k) == d[CHOOSE i \in DOMAIN d : d[i][1] = k][2]

DictSet(d, k, v) ==
  IF DictHas(d, k)
    THEN [i \in DOMAIN d |-> IF d[i][1] = k THEN <<k, v>> ELSE d[i]]
    ELSE Append(d, <<k, v>>)

\* Sequences of length <= n over S without a repeated element
RECURSIVE DistinctSeqs(_, _)
DistinctSeqs(S, n) ==
  IF n = 0 THEN {<<>>}
  ELSE LET shorter == DistinctSeqs(S, n - 1)
       IN  shorter \cup {Append(s, x) : s \in shorter, x \in S}

NoRepeat(s) == \A i, j \in DOMAIN s : i # j => s[i] # s[j]

\* The watched maps a caller can pass: (key, label) -> etag or None
WatchedMaps(P, n) ==
  {d \in DistinctSeqs(P \X (Etags \cup {None}), n) :
     NoRepeat([i \in DOMAIN d |-> d[i][1]])}

SelectorLists(S, n) == UNION {[1..m -> S] : m \in 0..n}

(***************************************************************************)
(* Transport client (AzureAppConfigurationClient)                          *)
(***************************************************************************)
IsPrefix(p, k) == Len(p) <= Len(k) /\ SubSeq(k, 1, Len(p)) = p

KeyMatches(filter, key) ==
  IF filter[Len(filter)] = "*"
    THEN IsPrefix(SubSeq(filter, 1, Len(filter) - 1), key)
    ELSE filter = key

\* entries are deserialized as FeatureFlagConfigurationSetting by their key
IsFeatureFlag(config) == IsPrefix(FEATURE_FLAG_PREFIX, config.key)

\* the JSON text of a feature flag's value, as tokens
FlagJson(key) == <<"{", "id", ":", key[Len(key)], "}">>

Entry(store, p) ==
  [key |-> p[1], label |-> p[2], etag |-> store[p], value |-> FlagJson(p[1])]

\* list_configuration_settings(key_filter, label_filter): the matching
\* entries of the store, in the store's order
RECURSIVE ListFrom(_, _, _, _)
ListFrom(store, key_filter, label_filter, i) ==
  IF i > Len(AllPairs) THEN <<>>
  ELSE LET p == AllPairs[i]
           rest == ListFrom(store, key_filter, label_filter, i + 1)
       IN  IF store[p] # None /\ KeyMatches(key_filter, p[1]) /\ label_filter = p[2]
             THEN <<Entry(store, p)>> \o rest
             ELSE rest

list_configuration_settings(store, key_filter, label_filter) ==
  ListFrom(store, key_filter, label_filter, 1)

\* status codes of the HTTP errors the transport raises besides 404
Faults == {500}
NoFault == 0

\* get_configuration_setting(key, label, etag, MatchConditions.IfModified):
\* the entry, None when not modified, or an HttpResponseError
get_configuration_setting(store, p, etag, fault) ==
  IF fault # NoFault THEN [kind |-> "error", status_code |-> fault]
  ELSE IF store[p] = None THEN [kind |-> "error", status_code |-> 404]
  ELSE IF etag # None /\ store[p] = etag THEN [kind |-> "none"]
  ELSE [kind |-> "entry", entry |-> Entry(store, p)]

(***************************************************************************)
(* ReplicaClient                                                           *)
(***************************************************************************)
\* as check_configuration_setting, but a 404 without a prior etag is a change
check_configuration_setting_404(response, etag) ==
  IF response.kind = "entry"
    THEN [raised |-> FALSE, value |-> <<TRUE, Some(response.entry)>>]
  ELSE IF response.kind = "error"
    THEN IF response.status_code = 404
           THEN [raised |-> FALSE, value |-> <<TRUE, Nothing>>]
           ELSE [raised |-> TRUE, status_code |-> response.status_code]
  ELSE [raised |-> FALSE, value |-> <<FALSE, Nothing>>]

\* as check_configuration_setting, but "not modified" counts as a change
check_configuration_setting_eager(response, etag) ==
  IF response.kind = "entry"
    THEN [raised |-> FALSE, value |-> <<TRUE, Some(response.entry)>>]
  ELSE IF response.kind = "error"
    THEN IF response.status_code = 404
           THEN IF etag # None
                  THEN [raised |-> FALSE, value |-> <<TRUE, Nothing>>]
                  ELSE [raised |-> FALSE, value |-> <<FALSE, Nothing>>]
           ELSE [raised |-> TRUE, status_code |-> response.status_code]
  ELSE [raised |-> FALSE, value |-> <<TRUE, Nothing>>]

\* as check_configuration_setting, but an error other than 404 is taken as
\* "not changed" instead of being raised
check_configuration_setting_swallowing(response, etag) ==
  IF response.kind = "entry"
    THEN [raised |-> FALSE, value |-> <<TRUE, Some(response.entry)>>]
  ELSE IF response.kind = "error" /\ response.status_code = 404 /\ etag # None
    THEN [raised |-> FALSE, value |-> <<TRUE, Nothing>>]
  ELSE [raised |-> FALSE, value |-> <<FALSE, Nothing>>]

\* _check_configuration_setting: the tuple returned, or the error raised
check_configuration_setting(response, etag) ==
  IF response.kind = "entry"
    THEN [raised |-> FALSE, value |-> <<TRUE, Some(response.entry)>>]
  ELSE IF response.kind = "error"
    THEN IF response.status_code = 404
           THEN IF etag # None
                  THEN [raised |-> FALSE, value |-> <<TRUE, Nothing>>]
                  ELSE [raised |-> FALSE, value |-> <<FALSE, Nothing>>]
           ELSE [raised |-> TRUE, status_code |-> response.status_code]
  ELSE [raised |-> FALSE, value |-> <<FALSE, Nothing>>]

\* as NeedRefresh, but the last pair checked decides
NeedRefreshLast(need_refresh_, changed_) == changed_

\* "if changed: need_refresh = True" in refresh_configuration_settings
NeedRefresh(need_refresh_, changed_) == IF changed_ THEN TRUE ELSE need_refresh_

\* "if updated_sentinel is not None: updated_sentinel_keys[(key, label)] = ..."
SentinelAfterCheck(sentinels, p, updated_sentinel) ==
  IF updated_sentinel # Nothing
    THEN DictSet(sentinels, p, updated_sentinel[1].etag)
    ELSE sentinels

\* a listing loop that records the etag of every listed entry, watched or not
RECURSIVE LoadListingAll(_, _, _)
LoadListingAll(configurations, refresh_on_, acc) ==
  IF configurations = <<>> THEN acc
  ELSE LET config == Head(configurations)
       IN  LoadListingAll(Tail(configurations), refresh_on_,
             [configuration_settings |-> Append(acc.configuration_settings, config),
              sentinel_keys |->
                DictSet(acc.sentinel_keys, <<config.key, config.label>>, config.etag)])

\* the inner loop of load_configuration_settings over one listing
RECURSIVE LoadListing(_, _, _)
LoadListing(configurations, refresh_on_, acc) ==
  IF configurations = <<>> THEN acc
  ELSE LET config == Head(configurations)
           \* isinstance(config, FeatureFlagConfigurationSetting): pass
           settings == Append(acc.configuration_settings, config)
           sentinels ==
             IF DictHas(refresh_on_, <<config.key, config.label>>)
               THEN DictSet(acc.sentinel_keys, <<config.key, config.label>>, config.etag)
               ELSE acc.sentinel_keys
       IN  LoadListing(Tail(configurations), refresh_on_,
                       [configuration_settings |-> settings, sentinel_keys |-> sentinels])

\* load_configuration_settings(selects, refresh_on); sentinel_keys is the
\* refresh_on object itself, so the result's map is the caller's map
RECURSIVE LoadSelects(_, _, _, _)
LoadSelects(store, selects_, refresh_on_, acc) ==
  IF selects_ = <<>> THEN acc
  ELSE LET select == Head(selects_)
           configurations ==
             list_configuration_settings(store, select.key_filter, select.label_filter)
       IN  LoadSelects(store, Tail(selects_), refresh_on_,
                       LoadListing(configurations, acc.sentinel_keys, acc))

load_configuration_settings(store, selects_, refresh_on_) ==
  LoadSelects(store, selects_, refresh_on_,
              [configuration_settings |-> <<>>, sentinel_keys |-> refresh_on_])

\* json.loads(feature_flag.value)
json_loads(value) == [id |-> value[4]]

\* the inner loop of load_feature_flags over one listing
RECURSIVE LoadFlagListing(_, _, _)
LoadFlagListing(feature_flags, feature_flag_refresh_enabled, acc) ==
  IF feature_flags = <<>> THEN acc
  ELSE LET feature_flag == Head(feature_flags)
           loaded == Append(acc.loaded_feature_flags, json_loads(feature_flag.value))
           sentinels ==
             IF feature_flag_refresh_enabled
               THEN DictSet(acc.feature_flag_sentinel_keys,
                            <<feature_flag.key, feature_flag.label>>, feature_flag.etag)
               ELSE acc.feature_flag_sentinel_keys
       IN  LoadFlagListing(Tail(feature_flags), feature_flag_refresh_enabled,
                           [loaded_feature_flags |-> loaded,
                            feature_flag_sentinel_keys |-> sentinels])

RECURSIVE LoadFlagSelects(_, _, _, _)
LoadFlagSelects(store, feature_flag_selectors, feature_flag_refresh_enabled, acc) ==
  IF feature_flag_selectors = <<>> THEN acc
  ELSE LET select == Head(feature_flag_selectors)
           feature_flags ==
             list_configuration_settings(store, FEATURE_FLAG_PREFIX \o select.key_filter,
                                         select.label_filter)
       IN  LoadFlagSelects(store, Tail(feature_flag_selectors), feature_flag_refresh_enabled,
                           LoadFlagListing(feature_flags, feature_flag_refresh_enabled, acc))

\* as load_feature_flags, but the etags are never recorded
load_feature_flags_untracked(store, feature_flag_selectors, feature_flag_refresh_enabled) ==
  LoadFlagSelects(store, feature_flag_selectors, FALSE,
                  [loaded_feature_flags |-> <<>>, feature_flag_sentinel_keys |-> <<>>])

load_feature_flags(store, feature_flag_selectors, feature_flag_refresh_enabled) ==
  LoadFlagSelects(store, feature_flag_selectors, feature_flag_refresh_enabled,
                  [loaded_feature_flags |-> <<>>, feature_flag_sentinel_keys |-> <<>>])

\* truth value of a Python tuple in a condition: true unless it is empty
Truthy(tuple) == Len(tuple) # 0
(***************************************************************************)
(* State                                                                   *)
(***************************************************************************)
VARIABLES
  remote,                      \* the store: (key, label) -> etag, None if absent
  pc,                          \* position of the caller in a ReplicaClient call
  op,                          \* the ReplicaClient method called
  selects,                     \* argument: selector list
  refresh_on,                  \* argument: the caller's watched map (one object)
  input_refresh_on,            \* content of refresh_on when the call started
  updated_sentinel_keys,       \* local of refresh_configuration_settings
  feature_flag_sentinel_keys,  \* local of refresh_feature_flags
  item,                        \* index of the next item of the loop over the copy
  need_refresh,                \* local of refresh_configuration_settings
  changed,                     \* local of refresh_feature_flags
  ret,                         \* what the call returned or raised
  checks,                      \* the _check_configuration_setting calls of this call
  loads,                       \* the load_* calls of this call
  follows,                     \* the call was given the selectors and the sentinel map
                               \* of the changed result before it, on an unmodified store
  clock,                       \* time.time() * 1000
  min_backoff,                 \* ReplicaClientManager._min_backoff (seconds)
  max_backoff,                 \* ReplicaClientManager._max_backoff (seconds)
  failed_attempts,             \* ReplicaClient.failed_attempts of each client
  backoff_end_time,            \* ReplicaClient.backoff_end_time of each client
  transport,                   \* state of each client's transport client
  lifecycle,                   \* what close / __enter__ / __exit__ did last
  active,                      \* last get_active_clients result since a backoff,
                               \* and whether the clock advanced since
  last_backoff,                \* the last backoff call
  t_pc,                        \* position of each thread inside backoff()
  t_client,                    \* the client a thread reports
  t_attempts,                  \* the failed_attempts value a thread has read
  t_backoff_time,              \* local backoff_time of a thread
  reports,                     \* number of backoff calls completed per client
  calculation                  \* the last _calculate_backoff call made on its own

clientVars ==
  <<remote, pc, op, selects, refresh_on, input_refresh_on,
    updated_sentinel_keys, feature_flag_sentinel_keys, item, need_refresh,
    changed, ret, checks, loads, follows>>

managerVars ==
  <<clock, min_backoff, max_backoff, failed_attempts, backoff_end_time, transport,
    lifecycle, active, last_backoff>>

threadVars == <<t_pc, t_client, t_attempts, t_backoff_time, reports>>

calcVars == <<calculation>>

vars == <<clientVars, managerVars, threadVars, calcVars>>

NoReturn == [kind |-> "none", value |-> <<>>]
Return(value) == [kind |-> "return", value |-> value]
Raise(status_code) == [kind |-> "raise", value |-> <<status_code>>]

Stores == [Pairs -> Etags \cup {None}]

InitClient ==
  /\ pc = "idle"
  /\ op = "none"
  /\ selects = <<>>
  /\ refresh_on = <<>>
  /\ input_refresh_on = <<>>
  /\ updated_sentinel_keys = <<>>
  /\ feature_flag_sentinel_keys = <<>>
  /\ item = 1
  /\ need_refresh = FALSE
  /\ changed = <<>>
  /\ ret = NoReturn
  /\ checks = <<>>
  /\ loads = <<>>
  /\ follows = FALSE

(***************************************************************************)
(* ReplicaClientManager                                                    *)
(***************************************************************************)
\* self._replica_clients, in the configured order
Clients == 1..NumClients
Threads == {1, 2}
replica_clients == [c \in Clients |-> c]

ms_per_second == 1000
max_attempts == 63

\* the clock advances a second at a time, MaxTicks times
TickMs == ms_per_second

\* random.uniform(0.0, 1.0) is jitter / JitterSteps
Jitters == 0..JitterSteps

Min(a, b) == IF a <= b THEN a ELSE b
Max(a, b) == IF a >= b THEN a ELSE b

\* value * (1 << count) as far as the comparison with limit needs it: the
\* product itself while it is at most limit, else a value above limit (Python
\* integers do not wrap, so the product is above limit from then on)
RECURSIVE ShiftLeft(_, _, _)
ShiftLeft(value, count, limit) ==
  IF count = 0 \/ value > limit THEN value
  ELSE ShiftLeft(2 * value, count - 1, limit)

\* as calculate_backoff, but the jitter is taken off the floor
calculate_backoff_below(min_backoff_, max_backoff_, attempts, jitter) ==
  LET min_backoff_milliseconds == min_backoff_ * ms_per_second
      max_backoff_milliseconds == max_backoff_ * ms_per_second
      shifted == ShiftLeft(Max(1, min_backoff_milliseconds), Min(attempts, max_attempts),
                           max_backoff_milliseconds)
      calculated_milliseconds ==
        IF shifted > max_backoff_milliseconds \/ shifted <= 0
          THEN max_backoff_milliseconds
          ELSE shifted
  IN  IF max_backoff_ <= min_backoff_
        THEN min_backoff_milliseconds
        ELSE min_backoff_milliseconds
             - ((jitter * (calculated_milliseconds - min_backoff_milliseconds))
                \div JitterSteps)

\* as calculate_backoff, but the exponential term is not capped at the maximum
calculate_backoff_unclamped(min_backoff_, max_backoff_, attempts, jitter) ==
  LET min_backoff_milliseconds == min_backoff_ * ms_per_second
      max_backoff_milliseconds == max_backoff_ * ms_per_second
      calculated_milliseconds ==
        ShiftLeft(Max(1, min_backoff_milliseconds), Min(attempts, max_attempts),
                  max_backoff_milliseconds)
  IN  IF max_backoff_ <= min_backoff_
        THEN min_backoff_milliseconds
        ELSE min_backoff_milliseconds
             + ((jitter * (calculated_milliseconds - min_backoff_milliseconds))
                \div JitterSteps)

\* as calculate_backoff, but without the early return for max_backoff <= min_backoff
calculate_backoff_no_early_return(min_backoff_, max_backoff_, attempts, jitter) ==
  LET min_backoff_milliseconds == min_backoff_ * ms_per_second
      max_backoff_milliseconds == max_backoff_ * ms_per_second
      shifted == ShiftLeft(Max(1, min_backoff_milliseconds), Min(attempts, max_attempts),
                           max_backoff_milliseconds)
      calculated_milliseconds ==
        IF shifted > max_backoff_milliseconds \/ shifted <= 0
          THEN max_backoff_milliseconds
          ELSE shifted
  IN  min_backoff_milliseconds
      + ((jitter * (calculated_milliseconds - min_backoff_milliseconds))
         \div JitterSteps)

\* _calculate_backoff(attempts), with the jitter drawn
calculate_backoff(min_backoff_, max_backoff_, attempts, jitter) ==
  LET min_backoff_milliseconds == min_backoff_ * ms_per_second
      max_backoff_milliseconds == max_backoff_ * ms_per_second
      shifted == ShiftLeft(Max(1, min_backoff_milliseconds), Min(attempts, max_attempts),
                           max_backoff_milliseconds)
      calculated_milliseconds ==
        IF shifted > max_backoff_milliseconds \/ shifted <= 0
          THEN max_backoff_milliseconds
          ELSE shifted
  IN  IF max_backoff_ <= min_backoff_
        THEN min_backoff_milliseconds
        ELSE min_backoff_milliseconds
             + ((jitter * (calculated_milliseconds - min_backoff_milliseconds))
                \div JitterSteps)

\* as get_active_clients, but with the comparison turned round
get_active_clients_reversed(end_times, now) ==
  SelectSeq(replica_clients, LAMBDA client : end_times[client] >= now)

\* as get_active_clients, but a client whose backoff ends exactly now is left out
get_active_clients_strict(end_times, now) ==
  SelectSeq(replica_clients, LAMBDA client : end_times[client] < now)

\* get_active_clients(): the clients with backoff_end_time <= time.time() * 1000
get_active_clients(end_times, now) ==
  SelectSeq(replica_clients, LAMBDA client : end_times[client] <= now)

\* the clients whose transport call close() / __exit__ / __enter__ completes
\* when the call on client number failing raises (0: none raises): the loop
\* stops there
Succeeded(failing) == IF failing = 0 THEN Clients ELSE 1..(failing - 1)

InitManager(mins, maxs) ==
  /\ clock = TickMs
  /\ min_backoff \in mins
  /\ max_backoff \in maxs
  /\ failed_attempts = [c \in Clients |-> 0]
  /\ backoff_end_time = [c \in Clients |-> 0]
  /\ transport = [c \in Clients |-> "new"]
  /\ lifecycle = [call |-> "init", raised |-> FALSE, failing |-> 0]
  /\ active = Nothing
  /\ last_backoff = Nothing

InitThreads ==
  /\ t_pc = [t \in Threads |-> "idle"]
  /\ t_client = [t \in Threads |-> 1]
  /\ t_attempts = [t \in Threads |-> 0]
  /\ t_backoff_time = [t \in Threads |-> 0]
  /\ reports = [c \in Clients |-> 0]

InitCalculation == calculation = Nothing

Init ==
  /\ remote \in Stores
  /\ InitClient
  /\ InitManager({1}, {MaxBackoffSeconds})
  /\ InitThreads
  /\ InitCalculation

(***************************************************************************)
(* The store changes behind the client's back: an entry is written (it     *)
(* gets another etag) or deleted.  pc = "done" is the instant of the       *)
(* return, where the result is observed.                                   *)
(***************************************************************************)
RemoteChange(p, e) ==
  /\ pc # "done"
  /\ e # remote[p]
  /\ remote' = [remote EXCEPT ![p] = e]
  /\ UNCHANGED <<pc, op, selects, refresh_on, input_refresh_on, updated_sentinel_keys,
                 feature_flag_sentinel_keys, item, need_refresh, changed, ret, checks,
                 loads>>
  /\ follows' = FALSE
  /\ UNCHANGED <<managerVars, threadVars, calcVars>>

\* a call starts: the locals and the record of the call are fresh
Enter(name, position, sel, ro) ==
  /\ pc = "idle"
  /\ pc' = position
  /\ op' = name
  /\ selects' = sel
  /\ refresh_on' = ro
  /\ input_refresh_on' = ro
  /\ item' = 1
  /\ need_refresh' = FALSE
  /\ changed' = <<>>
  /\ ret' = NoReturn
  /\ checks' = <<>>
  /\ loads' = <<>>
  /\ follows' = FALSE
  /\ UNCHANGED remote

(***************************************************************************)
(* refresh_configuration_settings(selects, refresh_on, headers)            *)
(***************************************************************************)
\* need_refresh = False; updated_sentinel_keys = dict(refresh_on)
refresh_configuration_settings_call(sel, ro) ==
  /\ Enter("refresh_configuration_settings", "rcs_loop", sel, ro)
  /\ updated_sentinel_keys' = ro
  /\ UNCHANGED feature_flag_sentinel_keys
  /\ UNCHANGED <<managerVars, threadVars, calcVars>>

\* one iteration of the loop over updated_sentinel_keys.items()
refresh_configuration_settings_check(fault) ==
  /\ pc = "rcs_loop"
  /\ item <= Len(updated_sentinel_keys)
  /\ LET p == updated_sentinel_keys[item][1]
         etag == updated_sentinel_keys[item][2]
         response == get_configuration_setting(remote, p, etag, fault)
         result == check_configuration_setting(response, etag)
     IN  /\ checks' = Append(checks, [pair |-> p, etag |-> etag, response |-> response,
                                      result |-> result])
         /\ IF result.raised
              THEN /\ pc' = "done"
                   /\ ret' = Raise(result.status_code)
                   /\ UNCHANGED <<need_refresh, updated_sentinel_keys, item>>
              ELSE /\ need_refresh' = NeedRefresh(need_refresh, result.value[1])
                   /\ updated_sentinel_keys' =
                        SentinelAfterCheck(updated_sentinel_keys, p, result.value[2])
                   /\ item' = item + 1
                   /\ UNCHANGED <<pc, ret>>
  /\ UNCHANGED <<remote, op, selects, refresh_on, input_refresh_on,
                 feature_flag_sentinel_keys, changed, loads>>
  /\ UNCHANGED follows
  /\ UNCHANGED <<managerVars, threadVars, calcVars>>

\* after the loop: one load_configuration_settings(selects, refresh_on) if
\* need_refresh; the list call number failing (0: none) raises its error
refresh_configuration_settings_finish(failing) ==
  /\ pc = "rcs_loop"
  /\ item > Len(updated_sentinel_keys)
  /\ pc' = "done"
  /\ IF need_refresh
       THEN /\ failing \in 0..Len(selects)
            /\ loads' = Append(loads, [name |-> "load_configuration_settings",
                                       store |-> remote, checks |-> Len(checks),
                                       track |-> TRUE])
            /\ IF failing = 0
                 THEN LET loaded == load_configuration_settings(remote, selects, refresh_on)
                      IN  /\ refresh_on' = loaded.sentinel_keys
                          /\ ret' = Return(<<TRUE, Some(loaded.sentinel_keys),
                                             Some(loaded.configuration_settings)>>)
                 ELSE LET loaded == load_configuration_settings(
                                      remote, SubSeq(selects, 1, failing - 1), refresh_on)
                      IN  /\ refresh_on' = loaded.sentinel_keys
                          /\ ret' = Raise(CHOOSE f \in Faults : TRUE)
       ELSE /\ failing = 0
            /\ ret' = Return(<<FALSE, Some(refresh_on), Some(<<>>)>>)
            /\ UNCHANGED <<refresh_on, loads>>
  /\ UNCHANGED <<remote, op, selects, input_refresh_on, updated_sentinel_keys,
                 feature_flag_sentinel_keys, item, need_refresh, changed, checks>>
  /\ UNCHANGED follows
  /\ UNCHANGED <<managerVars, threadVars, calcVars>>

\* the caller calls refresh_configuration_settings again with the selectors
\* it used and the sentinel map the changed result gave it
refresh_configuration_settings_again ==
  /\ pc = "done"
  /\ op = "refresh_configuration_settings"
  /\ ret.kind = "return"
  /\ ret.value[1]
  /\ pc' = "rcs_loop"
  /\ refresh_on' = ret.value[2][1]
  /\ input_refresh_on' = ret.value[2][1]
  /\ updated_sentinel_keys' = ret.value[2][1]
  /\ item' = 1
  /\ need_refresh' = FALSE
  /\ ret' = NoReturn
  /\ checks' = <<>>
  /\ loads' = <<>>
  /\ follows' = TRUE
  /\ UNCHANGED <<remote, op, selects, feature_flag_sentinel_keys, changed>>
  /\ UNCHANGED <<managerVars, threadVars, calcVars>>

(***************************************************************************)
(* refresh_feature_flags(refresh_on, feature_flag_selectors, headers)      *)
(***************************************************************************)
\* feature_flag_sentinel_keys = dict(refresh_on)
refresh_feature_flags_call(ro, sel) ==
  /\ Enter("refresh_feature_flags", "rff_loop", sel, ro)
  /\ feature_flag_sentinel_keys' = ro
  /\ UNCHANGED updated_sentinel_keys
  /\ UNCHANGED <<managerVars, threadVars, calcVars>>

\* one iteration of the loop: changed = self._check_configuration_setting(...)
\* is the tuple the check returns; "if changed" tests the tuple
refresh_feature_flags_check(fault) ==
  /\ pc = "rff_loop"
  /\ item <= Len(feature_flag_sentinel_keys)
  /\ LET p == feature_flag_sentinel_keys[item][1]
         etag == feature_flag_sentinel_keys[item][2]
         response == get_configuration_setting(remote, p, etag, fault)
         result == check_configuration_setting(response, etag)
     IN  /\ checks' = Append(checks, [pair |-> p, etag |-> etag, response |-> response,
                                      result |-> result])
         /\ IF result.raised
              THEN /\ pc' = "done"
                   /\ ret' = Raise(result.status_code)
                   /\ UNCHANGED <<changed, item>>
              ELSE /\ changed' = result.value
                   /\ IF Truthy(result.value)
                        THEN pc' = "rff_load" /\ UNCHANGED item
                        ELSE item' = item + 1 /\ UNCHANGED pc
                   /\ UNCHANGED ret
  /\ UNCHANGED <<remote, op, selects, refresh_on, input_refresh_on,
                 updated_sentinel_keys, feature_flag_sentinel_keys, need_refresh, loads>>
  /\ UNCHANGED follows
  /\ UNCHANGED <<managerVars, threadVars, calcVars>>

\* load_feature_flags(feature_flag_selectors, True) and return its result
refresh_feature_flags_load(failing) ==
  /\ pc = "rff_load"
  /\ failing \in 0..Len(selects)
  /\ pc' = "done"
  /\ loads' = Append(loads, [name |-> "load_feature_flags", store |-> remote,
                             checks |-> Len(checks), track |-> TRUE])
  /\ IF failing = 0
       THEN LET loaded == load_feature_flags(remote, selects, TRUE)
            IN  /\ feature_flag_sentinel_keys' = loaded.feature_flag_sentinel_keys
                /\ ret' = Return(<<TRUE, Some(loaded.feature_flag_sentinel_keys),
                                   Some(loaded.loaded_feature_flags)>>)
       ELSE /\ ret' = Raise(CHOOSE f \in Faults : TRUE)
            /\ UNCHANGED feature_flag_sentinel_keys
  /\ UNCHANGED <<remote, op, selects, refresh_on, input_refresh_on,
                 updated_sentinel_keys, item, need_refresh, changed, checks>>
  /\ UNCHANGED follows
  /\ UNCHANGED <<managerVars, threadVars, calcVars>>

\* the loop ended without a change: return False, None, None
refresh_feature_flags_finish ==
  /\ pc = "rff_loop"
  /\ item > Len(feature_flag_sentinel_keys)
  /\ pc' = "done"
  /\ ret' = Return(<<FALSE, Nothing, Nothing>>)
  /\ UNCHANGED <<remote, op, selects, refresh_on, input_refresh_on,
                 updated_sentinel_keys, feature_flag_sentinel_keys, item, need_refresh,
                 changed, checks, loads>>
  /\ UNCHANGED follows
  /\ UNCHANGED <<managerVars, threadVars, calcVars>>

(***************************************************************************)
(* load_configuration_settings and load_feature_flags called directly      *)
(***************************************************************************)
load_configuration_settings_call(sel, ro, failing) ==
  /\ pc = "idle"
  /\ failing \in 0..Len(sel)
  /\ pc' = "done"
  /\ op' = "load_configuration_settings"
  /\ selects' = sel
  /\ input_refresh_on' = ro
  /\ checks' = <<>>
  /\ loads' = <<[name |-> "load_configuration_settings", store |-> remote, checks |-> 0,
                 track |-> TRUE]>>
  /\ LET upto == IF failing = 0 THEN sel ELSE SubSeq(sel, 1, failing - 1)
         loaded == load_configuration_settings(remote, upto, ro)
     IN  /\ refresh_on' = loaded.sentinel_keys
         /\ ret' = IF failing = 0
                     THEN Return(<<loaded.configuration_settings, loaded.sentinel_keys>>)
                     ELSE Raise(CHOOSE f \in Faults : TRUE)
  /\ follows' = FALSE
  /\ UNCHANGED <<remote, updated_sentinel_keys, feature_flag_sentinel_keys,
                 item, need_refresh, changed>>
  /\ UNCHANGED <<managerVars, threadVars, calcVars>>

load_feature_flags_call(sel, feature_flag_refresh_enabled, failing) ==
  /\ pc = "idle"
  /\ failing \in 0..Len(sel)
  /\ pc' = "done"
  /\ op' = "load_feature_flags"
  /\ selects' = sel
  /\ checks' = <<>>
  /\ loads' = <<[name |-> "load_feature_flags", store |-> remote, checks |-> 0,
                 track |-> feature_flag_refresh_enabled]>>
  /\ ret' = IF failing = 0
              THEN LET loaded == load_feature_flags(remote, sel, feature_flag_refresh_enabled)
                   IN  Return(<<loaded.loaded_feature_flags,
                                loaded.feature_flag_sentinel_keys>>)
              ELSE Raise(CHOOSE f \in Faults : TRUE)
  /\ follows' = FALSE
  /\ UNCHANGED <<remote, refresh_on, input_refresh_on, updated_sentinel_keys,
                 feature_flag_sentinel_keys, item, need_refresh, changed>>
  /\ UNCHANGED <<managerVars, threadVars, calcVars>>

(***************************************************************************)
(* get_configuration_setting(key, label)                                   *)
(***************************************************************************)
\* return self._client.get_configuration_setting(key=key, label=label): the
\* entry, or the transport's error
get_configuration_setting_call(p, fault) ==
  /\ pc = "idle"
  /\ pc' = "done"
  /\ op' = "get_configuration_setting"
  /\ LET response == get_configuration_setting(remote, p, None, fault)
     IN  ret' = IF response.kind = "error" THEN Raise(response.status_code)
                ELSE Return(<<response.entry>>)
  /\ follows' = FALSE
  /\ UNCHANGED <<remote, selects, refresh_on, input_refresh_on, updated_sentinel_keys,
                 feature_flag_sentinel_keys, item, need_refresh, changed, checks, loads>>
  /\ UNCHANGED <<managerVars, threadVars, calcVars>>

\* the caller takes the result and the call's frame is gone
Returned ==
  /\ pc = "done"
  /\ pc' = "idle"
  /\ op' = "none"
  /\ selects' = <<>>
  /\ refresh_on' = <<>>
  /\ input_refresh_on' = <<>>
  /\ updated_sentinel_keys' = <<>>
  /\ feature_flag_sentinel_keys' = <<>>
  /\ item' = 1
  /\ need_refresh' = FALSE
  /\ changed' = <<>>
  /\ ret' = NoReturn
  /\ checks' = <<>>
  /\ loads' = <<>>
  /\ follows' = FALSE
  /\ UNCHANGED remote
  /\ UNCHANGED <<managerVars, threadVars, calcVars>>

(***************************************************************************)
(* Specification of one ReplicaClient and its store                        *)
(***************************************************************************)
Next ==
  \/ \E p \in Pairs, e \in Etags \cup {None} : RemoteChange(p, e)
  \/ \E sel \in SelectorLists(Selectors, MaxSelects), ro \in WatchedMaps(Pairs, MaxWatched) :
       refresh_configuration_settings_call(sel, ro)
  \/ \E fault \in Faults \cup {NoFault} : refresh_configuration_settings_check(fault)
  \/ \E failing \in 0..MaxSelects : refresh_configuration_settings_finish(failing)
  \/ refresh_configuration_settings_again
  \/ \E sel \in SelectorLists(FlagSelectors, MaxSelects), ro \in WatchedMaps(Pairs, MaxWatched) :
       refresh_feature_flags_call(ro, sel)
  \/ \E fault \in Faults \cup {NoFault} : refresh_feature_flags_check(fault)
  \/ \E failing \in 0..MaxSelects : refresh_feature_flags_load(failing)
  \/ refresh_feature_flags_finish
  \/ \E sel \in SelectorLists(Selectors, MaxSelects), ro \in WatchedMaps(Pairs, MaxWatched),
        failing \in 0..MaxSelects :
       load_configuration_settings_call(sel, ro, failing)
  \/ \E sel \in SelectorLists(FlagSelectors, MaxSelects), enabled \in BOOLEAN,
        failing \in 0..MaxSelects :
       load_feature_flags_call(sel, enabled, failing)
  \/ \E p \in Pairs, fault \in Faults \cup {NoFault} : get_configuration_setting_call(p, fault)
  \/ Returned

Spec == Init /\ [][Next]_vars
(***************************************************************************)
(* ReplicaClientManager: one caller                                        *)
(***************************************************************************)
InitM ==
  /\ remote = [p \in Pairs |-> None]
  /\ InitClient
  /\ InitManager({0, 1}, 0..MaxBackoffSeconds)
  /\ InitThreads
  /\ InitCalculation

Open == lifecycle.call \notin {"close", "__exit__"}

Tick ==
  /\ clock < TickMs * (MaxTicks + 1)
  /\ clock' = clock + TickMs
  /\ active' = IF active = Nothing THEN Nothing
               ELSE Some([clients |-> active[1].clients, ticked |-> TRUE])
  /\ UNCHANGED <<min_backoff, max_backoff, failed_attempts, backoff_end_time, transport,
                 lifecycle, last_backoff>>
  /\ UNCHANGED <<clientVars, threadVars, calcVars>>

\* as GetActiveClients, but a client that is returned gets its failure count
\* reset
GetActiveClientsResetting ==
  /\ Open
  /\ active' = Some([clients |-> get_active_clients(backoff_end_time, clock),
                     ticked |-> FALSE])
  /\ failed_attempts' = [c \in Clients |-> IF backoff_end_time[c] <= clock THEN 0
                                           ELSE failed_attempts[c]]
  /\ UNCHANGED <<clock, min_backoff, max_backoff, backoff_end_time,
                 transport, lifecycle, last_backoff>>
  /\ UNCHANGED <<clientVars, threadVars, calcVars>>

\* get_active_clients(): the caller keeps the result
GetActiveClients ==
  /\ Open
  /\ active' = Some([clients |-> get_active_clients(backoff_end_time, clock),
                     ticked |-> FALSE])
  /\ UNCHANGED <<clock, min_backoff, max_backoff, failed_attempts, backoff_end_time,
                 transport, lifecycle, last_backoff>>
  /\ UNCHANGED <<clientVars, threadVars, calcVars>>

RECURSIVE SumUpTo(_, _)
SumUpTo(f, n) == IF n = 0 THEN 0 ELSE f[n] + SumUpTo(f, n - 1)

\* the number of backoff() calls made so far, which the model bounds
BackoffCalls == SumUpTo(failed_attempts, NumClients)

\* as Backoff, but the end time is the duration alone, without the clock
BackoffWithoutClock(client, jitter) ==
  /\ Open
  /\ BackoffCalls < MaxBackoffCalls
  /\ failed_attempts' = [failed_attempts EXCEPT ![client] = @ + 1]
  /\ LET backoff_time ==
           calculate_backoff(min_backoff, max_backoff, failed_attempts'[client], jitter)
     IN  backoff_end_time' = [backoff_end_time EXCEPT ![client] = backoff_time]
  /\ last_backoff' = Some([client |-> client,
                           active |-> backoff_end_time[client] <= clock])
  /\ active' = Nothing
  /\ UNCHANGED <<clock, min_backoff, max_backoff, transport, lifecycle>>
  /\ UNCHANGED <<clientVars, threadVars, calcVars>>

\* as Backoff, but the new end time is added to the one the client has
BackoffAccumulating(client, jitter) ==
  /\ Open
  /\ BackoffCalls < MaxBackoffCalls
  /\ failed_attempts' = [failed_attempts EXCEPT ![client] = @ + 1]
  /\ LET backoff_time ==
           calculate_backoff(min_backoff, max_backoff, failed_attempts'[client], jitter)
     IN  backoff_end_time' =
           [backoff_end_time EXCEPT ![client] = @ + clock + backoff_time]
  /\ last_backoff' = Some([client |-> client,
                           active |-> backoff_end_time[client] <= clock])
  /\ active' = Nothing
  /\ UNCHANGED <<clock, min_backoff, max_backoff, transport, lifecycle>>
  /\ UNCHANGED <<clientVars, threadVars, calcVars>>

\* backoff(client)
Backoff(client, jitter) ==
  /\ Open
  /\ BackoffCalls < MaxBackoffCalls
  /\ failed_attempts' = [failed_attempts EXCEPT ![client] = @ + 1]
  /\ LET backoff_time ==
           calculate_backoff(min_backoff, max_backoff, failed_attempts'[client], jitter)
     IN  backoff_end_time' = [backoff_end_time EXCEPT ![client] = clock + backoff_time]
  /\ last_backoff' = Some([client |-> client,
                           active |-> backoff_end_time[client] <= clock])
  /\ active' = Nothing
  /\ UNCHANGED <<clock, min_backoff, max_backoff, transport, lifecycle>>
  /\ UNCHANGED <<clientVars, threadVars, calcVars>>

\* __enter__(): client._client.__enter__() for each client in turn
ManagerEnter(failing) ==
  /\ lifecycle.call = "init"
  /\ transport' = [c \in Clients |-> IF c \in Succeeded(failing) THEN "entered"
                                     ELSE transport[c]]
  /\ lifecycle' = [call |-> "__enter__", raised |-> failing # 0, failing |-> failing]
  /\ UNCHANGED <<clock, min_backoff, max_backoff, failed_attempts, backoff_end_time,
                 active, last_backoff>>
  /\ UNCHANGED <<clientVars, threadVars, calcVars>>

\* close(): client._client.close() for each client in turn
Close(failing) ==
  /\ Open
  /\ transport' = [c \in Clients |-> IF c \in Succeeded(failing) THEN "closed"
                                     ELSE transport[c]]
  /\ lifecycle' = [call |-> "close", raised |-> failing # 0, failing |-> failing]
  /\ UNCHANGED <<clock, min_backoff, max_backoff, failed_attempts, backoff_end_time,
                 active, last_backoff>>
  /\ UNCHANGED <<clientVars, threadVars, calcVars>>

\* __exit__(*args): client._client.__exit__(*args) for each client in turn
ManagerExit(failing) ==
  /\ lifecycle.call = "__enter__"
  /\ ~lifecycle.raised
  /\ transport' = [c \in Clients |-> IF c \in Succeeded(failing) THEN "closed"
                                     ELSE transport[c]]
  /\ lifecycle' = [call |-> "__exit__", raised |-> failing # 0, failing |-> failing]
  /\ UNCHANGED <<clock, min_backoff, max_backoff, failed_attempts, backoff_end_time,
                 active, last_backoff>>
  /\ UNCHANGED <<clientVars, threadVars, calcVars>>

\* failover: the caller asks for the active clients and reports failures
NextM ==
  \/ Tick
  \/ GetActiveClients
  \/ \E client \in Clients, jitter \in Jitters : Backoff(client, jitter)

SpecManager == InitM /\ [][NextM]_vars

\* lifecycle: the manager is entered, used and closed
NextL ==
  \/ Tick
  \/ GetActiveClients
  \/ \E failing \in 0..NumClients : ManagerEnter(failing)
  \/ \E failing \in 0..NumClients : Close(failing)
  \/ \E failing \in 0..NumClients : ManagerExit(failing)

SpecLifecycle == InitM /\ [][NextL]_vars

(***************************************************************************)
(* ReplicaClientManager: two threads report failures.  backoff() takes no  *)
(* lock, so the steps of two calls interleave:                             *)
(*   client.failed_attempts += 1 reads the field, then writes it;          *)
(*   _calculate_backoff(client.failed_attempts) reads it again;            *)
(*   client.backoff_end_time = ... writes the end time.                    *)
(***************************************************************************)
RunningThreads == {t \in Threads : t_pc[t] # "idle"}

ThreadCall(t, client) ==
  /\ t_pc[t] = "idle"
  /\ SumUpTo(reports, NumClients) + Cardinality(RunningThreads) < MaxBackoffCalls
  /\ t_pc' = [t_pc EXCEPT ![t] = "read"]
  /\ t_client' = [t_client EXCEPT ![t] = client]
  /\ t_attempts' = [t_attempts EXCEPT ![t] = 0]
  /\ t_backoff_time' = [t_backoff_time EXCEPT ![t] = 0]
  /\ UNCHANGED <<reports, clientVars, managerVars, calcVars>>

\* the read of client.failed_attempts += 1
ThreadRead(t) ==
  /\ t_pc[t] = "read"
  /\ t_attempts' = [t_attempts EXCEPT ![t] = failed_attempts[t_client[t]]]
  /\ t_pc' = [t_pc EXCEPT ![t] = "write"]
  /\ UNCHANGED <<t_client, t_backoff_time, reports, clientVars, managerVars, calcVars>>

\* the write of client.failed_attempts += 1
ThreadWrite(t) ==
  /\ t_pc[t] = "write"
  /\ failed_attempts' = [failed_attempts EXCEPT ![t_client[t]] = t_attempts[t] + 1]
  /\ t_pc' = [t_pc EXCEPT ![t] = "calculate"]
  /\ UNCHANGED <<clock, min_backoff, max_backoff, backoff_end_time, transport,
                 lifecycle, active, last_backoff>>
  /\ UNCHANGED <<t_client, t_attempts, t_backoff_time, reports, clientVars, calcVars>>

\* backoff_time = self._calculate_backoff(client.failed_attempts)
ThreadCalculate(t, jitter) ==
  /\ t_pc[t] = "calculate"
  /\ t_backoff_time' =
       [t_backoff_time EXCEPT ![t] =
          calculate_backoff(min_backoff, max_backoff, failed_attempts[t_client[t]], jitter)]
  /\ t_pc' = [t_pc EXCEPT ![t] = "set"]
  /\ UNCHANGED <<t_client, t_attempts, reports, clientVars, managerVars, calcVars>>

\* client.backoff_end_time = (time.time() * 1000) + backoff_time
ThreadSet(t) ==
  /\ t_pc[t] = "set"
  /\ backoff_end_time' =
       [backoff_end_time EXCEPT ![t_client[t]] = clock + t_backoff_time[t]]
  /\ t_pc' = [t_pc EXCEPT ![t] = "idle"]
  /\ reports' = [reports EXCEPT ![t_client[t]] = @ + 1]
  /\ UNCHANGED <<clock, min_backoff, max_backoff, failed_attempts, transport,
                 lifecycle, active, last_backoff>>
  /\ UNCHANGED <<t_client, t_attempts, t_backoff_time, clientVars, calcVars>>

NextT ==
  \/ Tick
  \/ \E t \in Threads, client \in Clients : ThreadCall(t, client)
  \/ \E t \in Threads : ThreadRead(t)
  \/ \E t \in Threads : ThreadWrite(t)
  \/ \E t \in Threads, jitter \in Jitters : ThreadCalculate(t, jitter)
  \/ \E t \in Threads : ThreadSet(t)

SpecThreads == InitM /\ [][NextT]_vars

(***************************************************************************)
(* Properties of ReplicaClient                                             *)
(***************************************************************************)
AnyCheckRaised == \E k \in DOMAIN checks : checks[k].result.raised

AnyCheckChanged ==
  \E k \in DOMAIN checks : ~checks[k].result.raised /\ checks[k].result.value[1]

AllChecksNotModified == \A k \in DOMAIN checks : checks[k].response.kind = "none"

\* every watched pair still has, in the store, the etag the caller passed
StoreAgreesWithInput ==
  \A k \in DOMAIN input_refresh_on : remote[input_refresh_on[k][1]] = input_refresh_on[k][2]

\* C1: refresh_feature_flags with a non-empty watched map, every watched
\* pair not modified: it returns (False, None, None) and no load_feature_flags
\* call is made.
C1_NoChangeNoFlagReload ==
  (/\ op = "refresh_feature_flags"
   /\ pc = "done"
   /\ input_refresh_on # <<>>
   /\ checks # <<>>
   /\ AllChecksNotModified
   /\ StoreAgreesWithInput)
  => (ret = Return(<<FALSE, Nothing, Nothing>>) /\ loads = <<>>)

\* C2: refresh_configuration_settings, a check of a watched pair with a known
\* etag returned a replacement entry: the call returns changed = True and the
\* returned sentinel map holds, for that pair, the etag the entry has in the
\* store at the reload.
C2_SentinelIsReloadedToken ==
  (/\ op = "refresh_configuration_settings"
   /\ pc = "done"
   /\ ret.kind = "return")
  => \A k \in DOMAIN checks :
       (checks[k].response.kind = "entry" /\ checks[k].etag # None)
       => /\ ret.value[1] = TRUE
          /\ Len(loads) = 1
          /\ loads[1].store[checks[k].pair] # None
             => DictGet(ret.value[2][1], checks[k].pair) = loads[1].store[checks[k].pair]

\* C3: no entry of the list load_configuration_settings returns is a feature
\* flag.
C3_NoFeatureFlagLoaded ==
  (/\ op = "load_configuration_settings"
   /\ pc = "done"
   /\ ret.kind = "return")
  => \A k \in DOMAIN ret.value[1] : ~IsFeatureFlag(ret.value[1][k])

\* C8: refresh_configuration_settings never reloads more than once; when its
\* loop has checked the pairs without an error it has reloaded exactly once if
\* a pair was detected as changed and not at all otherwise; and the reload
\* comes after the check of every watched pair.
C8_OneReloadAfterAllChecks ==
  op = "refresh_configuration_settings"
  => /\ Len(loads) <= 1
     /\ (pc = "done" /\ ~AnyCheckRaised)
        => Len(loads) = (IF AnyCheckChanged THEN 1 ELSE 0)
     /\ \A l \in DOMAIN loads :
          /\ loads[l].name = "load_configuration_settings"
          /\ loads[l].checks = Len(input_refresh_on)
          /\ Len(checks) = Len(input_refresh_on)
          /\ \A k \in DOMAIN checks : checks[k].pair = input_refresh_on[k][1]

\* two watched pairs were both detected as changed, then one reload was made
C8_Witness ==
  /\ op = "refresh_configuration_settings"
  /\ pc = "done"
  /\ Len(checks) = 2
  /\ \A k \in DOMAIN checks : ~checks[k].result.raised /\ checks[k].result.value[1]
  /\ Len(loads) = 1

\* C9: refresh_configuration_settings, every watched pair not modified: it
\* returns (False, the caller's map, []) and the caller's map has the keys
\* and etags it had before the call.
C9_NoChangeKeepsSentinels ==
  (/\ op = "refresh_configuration_settings"
   /\ pc = "done"
   /\ Len(checks) = Len(input_refresh_on)
   /\ AllChecksNotModified)
  => /\ ret = Return(<<FALSE, Some(input_refresh_on), Some(<<>>)>>)
     /\ refresh_on = input_refresh_on
     /\ loads = <<>>

\* two watched pairs were checked, both not modified
C9_Witness ==
  /\ op = "refresh_configuration_settings"
  /\ pc = "done"
  /\ Len(input_refresh_on) = 2
  /\ Len(checks) = 2
  /\ AllChecksNotModified
  /\ ret.kind = "return"

\* what the change check is to give for a response of the transport
CheckAgrees(c) ==
  IF c.response.kind = "entry"
    THEN ~c.result.raised /\ c.result.value = <<TRUE, Some(c.response.entry)>>
  ELSE IF c.response.kind = "none"
    THEN ~c.result.raised /\ c.result.value = <<FALSE, Nothing>>
  ELSE IF c.response.status_code = 404
    THEN /\ ~c.result.raised
         /\ c.result.value = <<(c.etag # None), Nothing>>
  ELSE /\ c.result.raised
       /\ c.result.status_code = c.response.status_code
       /\ DOMAIN c.result = {"raised", "status_code"}

\* C10: each outcome of the transport has one result of the change check:
\* entry -> (True, entry); not modified -> (False, None); 404 with an etag ->
\* (True, None); 404 without an etag -> (False, None); another HTTP error ->
\* that error is raised, out of the calling refresh too, and no tuple returned.
C10_CheckOutcomes ==
  \A k \in DOMAIN checks :
    /\ CheckAgrees(checks[k])
    /\ checks[k].result.raised
       => (k = Len(checks) /\ pc = "done"
           /\ ret = Raise(checks[k].response.status_code))

\* the call has seen a 404 for a pair without etag and a 404 for one with
C10_Witness ==
  /\ \E k \in DOMAIN checks :
       /\ checks[k].response.kind = "error"
       /\ checks[k].response.status_code = 404
       /\ checks[k].etag = None
  /\ \E k \in DOMAIN checks :
       /\ checks[k].response.kind = "error"
       /\ checks[k].response.status_code = 404
       /\ checks[k].etag # None
(***************************************************************************)
(* Properties of ReplicaClientManager                                      *)
(***************************************************************************)
\* C4: close() and __exit__ call close on the transport client of every
\* managed endpoint, also of those after one whose close raised.
C4_CloseReachesEveryClient ==
  lifecycle.call \in {"close", "__exit__"}
  => \A c \in Clients : c # lifecycle.failing => transport[c] = "closed"

\* C5: with no backoff() call in progress, failed_attempts of each endpoint
\* is the number of backoff() calls completed on it: two concurrent calls on
\* one endpoint raise it by 2.
C5_NoLostUpdate ==
  (\A t \in Threads : t_pc[t] = "idle")
  => \A c \in Clients : failed_attempts[c] = reports[c]

\* C6 as stated: no step lowers the backoff_end_time of an endpoint.
C6_EndTimeNeverDecreases ==
  [][\A c \in Clients : backoff_end_time'[c] >= backoff_end_time[c]]_vars

\* C6 as amended: a step on an endpoint that is active (its backoff_end_time
\* is not after the clock) does not lower its backoff_end_time, and leaves
\* it at least min_backoff seconds after the clock.
C6_EndTimeNeverDecreasesWhenActive ==
  [][\A c \in Clients :
       (backoff_end_time[c] <= clock /\ failed_attempts'[c] # failed_attempts[c])
       => /\ backoff_end_time'[c] >= backoff_end_time[c]
          /\ backoff_end_time'[c] >= clock + min_backoff * ms_per_second]_vars

\* an endpoint has failed twice, the second time when it was active again,
\* and jitter applies
C6_Witness ==
  /\ last_backoff # Nothing
  /\ last_backoff[1].active
  /\ failed_attempts[last_backoff[1].client] >= 2
  /\ max_backoff > min_backoff

\* C7 as stated: a get_active_clients() result equals the one before it when
\* no backoff() call came between the two.
C7_SameActiveClients ==
  [][(active # Nothing /\ active' # Nothing) => active'[1].clients = active[1].clients]_vars

\* C7 as amended: with no backoff() call between two get_active_clients()
\* calls, the second returns every endpoint of the first, and the same list
\* when the clock has not advanced between them.
C7_ActiveClientsGrow ==
  [][(active # Nothing /\ active' # Nothing)
     => /\ Range(active[1].clients) \subseteq Range(active'[1].clients)
        /\ (~active'[1].ticked /\ ~active[1].ticked)
           => active'[1].clients = active[1].clients]_vars

\* a result was taken with an endpoint backing off, and the clock advanced
C7_Witness ==
  /\ active # Nothing
  /\ active[1].ticked
  /\ Len(active[1].clients) < NumClients
  /\ \A c \in Clients : backoff_end_time[c] <= clock

(***************************************************************************)
(* load_configuration_settings: the returned sentinel map                  *)
(***************************************************************************)
\* the pair is among the entries some selector lists from the store
Listed(store, selects_, p) ==
  /\ store[p] # None
  /\ \E i \in DOMAIN selects_ :
       /\ KeyMatches(selects_[i].key_filter, p[1])
       /\ selects_[i].label_filter = p[2]

\* C11: the sentinel map load_configuration_settings returns has the watched
\* map's keys, in the same order; a watched pair that is listed maps to the
\* listed entry's etag, a watched pair that is not listed keeps the token it
\* had, and no other pair is added.
C11_LoadKeepsWatchedKeys ==
  (op = "load_configuration_settings" /\ pc = "done" /\ ret.kind = "return") =>
    LET sentinel_keys == ret.value[2]
        store == loads[1].store
    IN  /\ Len(sentinel_keys) = Len(input_refresh_on)
        /\ \A k \in DOMAIN input_refresh_on :
             LET p == input_refresh_on[k][1]
             IN  /\ sentinel_keys[k][1] = p
                 /\ sentinel_keys[k][2] =
                      IF Listed(store, selects, p) THEN store[p]
                      ELSE input_refresh_on[k][2]

\* a load over a store that lists one watched pair under a new etag, does not
\* list another watched pair, and lists a pair that is not watched
C11_Witness ==
  /\ op = "load_configuration_settings" /\ pc = "done" /\ ret.kind = "return"
  /\ \E p \in DictKeys(input_refresh_on) :
       /\ Listed(loads[1].store, selects, p)
       /\ DictGet(input_refresh_on, p) # loads[1].store[p]
       /\ DictGet(ret.value[2], p) = loads[1].store[p]
  /\ \E p \in Pairs \ DictKeys(input_refresh_on) : Listed(loads[1].store, selects, p)

(***************************************************************************)
(* get_active_clients: the returned list                                   *)
(***************************************************************************)
\* the result held is the one a call at the present clock gave, and no
\* backoff() ran since
FreshResult == active # Nothing /\ ~active[1].ticked

\* C12: get_active_clients() returns exactly the endpoints whose
\* backoff_end_time is at or before the clock, each once and in configured
\* order; when every endpoint is backing off the result is the empty list.
C12_ExactlyTheActiveClients ==
  FreshResult =>
    LET result == active[1].clients
    IN  /\ Range(result) = {c \in Clients : backoff_end_time[c] <= clock}
        /\ \A i, j \in DOMAIN result : i < j => result[i] < result[j]
        /\ (\A c \in Clients : backoff_end_time[c] > clock) => result = <<>>

\* a result taken while the first endpoint backs off and a later one does
\* not, where an endpoint's backoff ends exactly at the clock
C12_Witness ==
  /\ FreshResult
  /\ backoff_end_time[1] > clock
  /\ \E c \in Clients : failed_attempts[c] > 0 /\ backoff_end_time[c] = clock
  /\ active[1].clients # <<>>
  /\ 1 \notin Range(active[1].clients)

\* a result taken while every endpoint backs off
C12_EmptyResultSeen ==
  /\ FreshResult
  /\ \A c \in Clients : backoff_end_time[c] > clock
  /\ active[1].clients = <<>>

(***************************************************************************)
(* _calculate_backoff called on its own, for every attempt count           *)
(***************************************************************************)
CalculateBackoff(attempts, jitter) ==
  /\ calculation' =
       Some([attempts |-> attempts, jitter |-> jitter,
             result |-> calculate_backoff(min_backoff, max_backoff, attempts, jitter)])
  /\ UNCHANGED <<clientVars, managerVars, threadVars>>

NextC == \E attempts \in 1..MaxAttempts, jitter \in Jitters : CalculateBackoff(attempts, jitter)

SpecCalculate == InitM /\ [][NextC]_vars

\* C13: for every attempt count a >= 1, every configured min_backoff and
\* max_backoff and every jitter draw, the duration _calculate_backoff returns
\* lies in [min_backoff * 1000, max_backoff * 1000].
C13_DurationInRange ==
  calculation # Nothing =>
    /\ min_backoff * ms_per_second <= calculation[1].result
    /\ calculation[1].result <= max_backoff * ms_per_second

\* C13, amended: the same for every configuration with min_backoff <=
\* max_backoff; with max_backoff < min_backoff the duration is
\* min_backoff * 1000, which is above max_backoff * 1000.
C13_DurationInRangeWhenOrdered ==
  calculation # Nothing =>
    IF min_backoff <= max_backoff
      THEN /\ min_backoff * ms_per_second <= calculation[1].result
           /\ calculation[1].result <= max_backoff * ms_per_second
      ELSE /\ calculation[1].result = min_backoff * ms_per_second
           /\ calculation[1].result > max_backoff * ms_per_second

\* a duration strictly inside the range, for an attempt count above the
\* shift cap
C13_Witness ==
  /\ calculation # Nothing
  /\ calculation[1].attempts > max_attempts
  /\ min_backoff * ms_per_second < calculation[1].result
  /\ calculation[1].result < max_backoff * ms_per_second

\* C14: when max_backoff <= min_backoff, _calculate_backoff returns exactly
\* min_backoff * 1000, whatever the attempt count and the jitter draw.
C14_DegenerateIsMin ==
  (calculation # Nothing /\ max_backoff <= min_backoff) =>
    calculation[1].result = min_backoff * ms_per_second

\* a degenerate configuration with max_backoff below min_backoff, called with
\* the largest attempt count and the largest jitter draw
C14_Witness ==
  /\ calculation # Nothing
  /\ max_backoff < min_backoff
  /\ calculation[1].attempts > max_attempts
  /\ calculation[1].jitter = JitterSteps
  /\ calculation[1].result = min_backoff * ms_per_second

(***************************************************************************)
(* refresh_configuration_settings: a refresh after a changed refresh       *)
(***************************************************************************)
\* C17: a refresh_configuration_settings call that is given the sentinel map
\* a changed refresh returned, with the same selectors and with no store
\* change since that result, reports no change and makes no load call, when
\* its checks raise no error; this also when a watched pair is matched by no
\* selector or was deleted from the store.
C17_RefreshConverges ==
  (op = "refresh_configuration_settings" /\ follows /\ pc = "done"
     /\ ~AnyCheckRaised) =>
    /\ ret.kind = "return"
    /\ ~ret.value[1]
    /\ loads = <<>>

(***************************************************************************)
(* One manager and the calls made on its clients: the failover loop of the *)
(* caller, with one configuration, one store and one watched map           *)
(***************************************************************************)
FrameStore == [p \in Pairs |-> 1]

\* a watched map whose token is not the store's
FrameWatched == << <<AllPairs[1], MaxEtag>> >>

InitF ==
  /\ remote = FrameStore
  /\ InitClient
  /\ InitManager({0}, {1})
  /\ InitThreads
  /\ InitCalculation

NextF ==
  \/ Tick
  \/ GetActiveClients
  \/ \E client \in Clients, jitter \in {0, JitterSteps} : Backoff(client, jitter)
  \/ refresh_configuration_settings_call(<<>>, FrameWatched)
  \/ refresh_configuration_settings_check(NoFault)
  \/ refresh_configuration_settings_finish(0)
  \/ \E ro \in {<<>>, FrameWatched} : refresh_feature_flags_call(ro, <<>>)
  \/ refresh_feature_flags_check(NoFault)
  \/ refresh_feature_flags_load(0)
  \/ refresh_feature_flags_finish
  \/ load_configuration_settings_call(<<>>, FrameWatched, 0)
  \/ load_feature_flags_call(<<>>, TRUE, 0)
  \/ get_configuration_setting_call(AllPairs[1], NoFault)
  \/ Returned

SpecFrame == InitF /\ [][NextF]_vars

IsActive(c) == backoff_end_time[c] <= clock

FieldsChanged(c) ==
  \/ failed_attempts'[c] # failed_attempts[c]
  \/ backoff_end_time'[c] # backoff_end_time[c]

\* the step is a backoff(c) call: it is no step of a ReplicaClient call, no
\* get_active_clients() call and no clock step
IsBackoffOf(c) ==
  /\ failed_attempts'[c] = failed_attempts[c] + 1
  /\ last_backoff' # Nothing
  /\ last_backoff'[1].client = c
  /\ active' = Nothing
  /\ clock' = clock
  /\ clientVars' = clientVars

\* C15: failed_attempts and backoff_end_time of an endpoint are 0 until its
\* first backoff() and are changed by backoff() only (not by
\* get_active_clients, the change check, load_*, refresh_* or
\* get_configuration_setting); failed_attempts never decreases; an endpoint
\* stops being active only through backoff() and becomes active again only by
\* the clock passing its backoff_end_time.
C15_OnlyBackoffChangesFields ==
  [][\A c \in Clients :
       /\ failed_attempts[c] = 0 => backoff_end_time[c] = 0
       /\ FieldsChanged(c) => IsBackoffOf(c)
       /\ failed_attempts'[c] >= failed_attempts[c]
       /\ (IsActive(c) /\ ~IsActive(c)') => IsBackoffOf(c)
       /\ (~IsActive(c) /\ IsActive(c)') => (clock' > clock /\ ~FieldsChanged(c))]_vars

\* C15, amended: as C15, but an endpoint that is backing off becomes active
\* again either by the clock reaching its backoff_end_time or by a backoff()
\* call on it whose duration is 0, which sets backoff_end_time to the clock.
C15_OnlyBackoffChangesFieldsOrZero ==
  [][\A c \in Clients :
       /\ failed_attempts[c] = 0 => backoff_end_time[c] = 0
       /\ FieldsChanged(c) => IsBackoffOf(c)
       /\ failed_attempts'[c] >= failed_attempts[c]
       /\ (IsActive(c) /\ ~IsActive(c)') => IsBackoffOf(c)
       /\ (~IsActive(c) /\ IsActive(c)') =>
            \/ clock' > clock /\ ~FieldsChanged(c)
            \/ IsBackoffOf(c) /\ backoff_end_time'[c] = clock]_vars

\* a ReplicaClient call has returned and a get_active_clients() result is
\* held while one endpoint backs off and the endpoint of the last backoff(),
\* which was backing off when that call was made, is active
C15_Witness ==
  /\ pc = "done"
  /\ FreshResult
  /\ last_backoff # Nothing
  /\ ~last_backoff[1].active
  /\ last_backoff[1].client \in Range(active[1].clients)
  /\ \E c \in Clients : failed_attempts[c] > 0 /\ ~IsActive(c)

(***************************************************************************)
(* refresh_feature_flags: what follows a changed watched pair              *)
(***************************************************************************)
CheckChanged(k) == ~checks[k].result.raised /\ checks[k].result.value[1]

\* the pair is a feature flag some selector lists from the store
ListedFlag(store, feature_flag_selectors, p) ==
  /\ store[p] # None
  /\ \E i \in DOMAIN feature_flag_selectors :
       /\ KeyMatches(FEATURE_FLAG_PREFIX \o feature_flag_selectors[i].key_filter, p[1])
       /\ feature_flag_selectors[i].label_filter = p[2]

\* C16: in refresh_feature_flags, once a watched pair is found changed no
\* later pair is checked and exactly one load_feature_flags call is made,
\* with tracking on; the call returns (true, that load's sentinel map, that
\* load's flags), and the sentinel map holds (key, label) -> etag for every
\* flag loaded.
C16_ChangeLoadsOnceAndReturns ==
  op = "refresh_feature_flags" =>
    /\ \A k \in DOMAIN checks : CheckChanged(k) => k = Len(checks)
    /\ (pc = "done" /\ \E k \in DOMAIN checks : CheckChanged(k)) =>
         /\ Len(loads) = 1
         /\ loads[1].name = "load_feature_flags"
         /\ loads[1].track
         /\ loads[1].checks = Len(checks)
         /\ ret.kind = "return" =>
              LET store == loads[1].store
                  flags == {p \in Pairs : ListedFlag(store, selects, p)}
              IN  /\ Len(ret.value) = 3
                  /\ ret.value[1] = TRUE
                  /\ ret.value[2] # Nothing /\ ret.value[3] # Nothing
                  /\ DictKeys(ret.value[2][1]) = flags
                  /\ \A p \in flags : DictGet(ret.value[2][1], p) = store[p]
                  /\ Range(ret.value[3][1]) =
                       {json_loads(Entry(store, p).value) : p \in flags}

\* two pairs are watched, the first is found changed, and the load that
\* follows lists a flag
C16_Witness ==
  /\ op = "refresh_feature_flags" /\ pc = "done" /\ ret.kind = "return"
  /\ Len(input_refresh_on) = 2
  /\ Len(checks) = 1 /\ CheckChanged(1)
  /\ ret.value[2] # Nothing /\ ret.value[2][1] # <<>>

(***************************************************************************)
(* refresh_configuration_settings: an error from a conditional check       *)
(***************************************************************************)
CheckFailed(k) ==
  checks[k].response.kind = "error" /\ checks[k].response.status_code # 404

\* C18: when a conditional check of refresh_configuration_settings gets an
\* error other than 404, the call ends there raising that error, no load call
\* is made (also when an earlier pair was found changed), and the caller's
\* sentinel map has the keys and tokens it had when the call started.
C18_ErrorPropagatesWithoutReload ==
  op = "refresh_configuration_settings" =>
    \A k \in DOMAIN checks :
      CheckFailed(k) =>
        /\ k = Len(checks)
        /\ pc = "done"
        /\ ret = Raise(checks[k].response.status_code)
        /\ loads = <<>>
        /\ refresh_on = input_refresh_on

\* the first watched pair was found changed and the check of the second got
\* the error
C18_Witness ==
  /\ op = "refresh_configuration_settings" /\ pc = "done"
  /\ Len(checks) = 2
  /\ CheckChanged(1)
  /\ need_refresh
  /\ CheckFailed(2)
  /\ ret.kind = "raise"

(***************************************************************************)
(* backoff: how long an endpoint stays out of get_active_clients           *)
(***************************************************************************)
\* what get_active_clients() returns at time now, as a set
ActiveAt(end_times, now) == Range(get_active_clients(end_times, now))

\* the first, the middle and the last millisecond of [t, t + length)
WindowTimes(t, length) ==
  IF length <= 0 THEN {} ELSE {t, t + (length \div 2), t + length - 1}

\* C19: with min_backoff > 0, after a backoff(e) call made at time t, e is in
\* no get_active_clients() result taken at a time in
\* [t, t + min_backoff * 1000), whatever the attempt count and jitter draw;
\* whether another endpoint is in a result is not changed by backoff(e).
C19_AbsentForMinBackoff ==
  [][\A e \in Clients :
       failed_attempts'[e] # failed_attempts[e] =>
         LET times == WindowTimes(clock', min_backoff * ms_per_second)
         IN  /\ min_backoff > 0 =>
                  \A now \in times : e \notin ActiveAt(backoff_end_time', now)
             /\ \A other \in Clients \ {e} :
                  /\ backoff_end_time'[other] = backoff_end_time[other]
                  /\ \A now \in times \cup {clock'} :
                       other \in ActiveAt(backoff_end_time', now)
                         <=> other \in ActiveAt(backoff_end_time, now)]_vars

\* a result taken inside the window of the last backoff(e): e is absent and
\* another endpoint is present
C19_Witness ==
  /\ min_backoff > 0
  /\ FreshResult
  /\ last_backoff # Nothing
  /\ clock < backoff_end_time[last_backoff[1].client]
  /\ last_backoff[1].client \notin Range(active[1].clients)
  /\ active[1].clients # <<>>

\* the longest duration a configuration allows, in milliseconds
LongestBackoff == Max(min_backoff, max_backoff) * ms_per_second

\* C20: no endpoint is excluded for ever: a backoff(e) call leaves
\* backoff_end_time at most max(min_backoff, max_backoff) * 1000 ms after the
\* clock, so that e is returned by get_active_clients() once the clock has
\* advanced that far with no further backoff(e); at every moment each
\* endpoint's end time is at most that far ahead of the clock.
C20_ActiveAgainWithinLongestBackoff ==
  [][\A e \in Clients :
       /\ backoff_end_time[e] <= clock + LongestBackoff
       /\ failed_attempts'[e] # failed_attempts[e] =>
            /\ backoff_end_time'[e] <= clock' + LongestBackoff
            /\ e \in ActiveAt(backoff_end_time', clock' + LongestBackoff)]_vars

\* with 0 < min_backoff < max_backoff, an endpoint that was reported more
\* than once is returned at the moment the clock reaches its end time
C20_Witness ==
  /\ 0 < min_backoff /\ min_backoff < max_backoff
  /\ FreshResult
  /\ last_backoff # Nothing
  /\ last_backoff[1].client \in Range(active[1].clients)
  /\ failed_attempts[last_backoff[1].client] > 1
  /\ backoff_end_time[last_backoff[1].client] = clock
====
